---- MODULE Spec2Model ----
(***************************************************************************)
(* A model of hobby_geo_stats: the staged, resumable pipeline of           *)
(* src/georef.py (GeoStat and main) and the OSM processor of               *)
(* src/processors.py (has_value, classify_use, get_use_priority, the       *)
(* admin-boundary filters).                                                *)
(*                                                                         *)
(* Geometry.  The plane is a strip of unit cells 1..NCells; cell i covers  *)
(* [i-1, i].  A geometry is a set of cells, its area the number of cells,  *)
(* union / intersection / difference are the set operations, and the       *)
(* centroid of a geometry is the mean of its cells' centres.  make_valid   *)
(* does not change the region a geometry covers, so it is the identity on  *)
(* cell sets.                                                              *)
(*                                                                         *)
(* Text.  A string is a sequence of one-character strings, so that         *)
(* strip(), lower(), equality and the substring test are computed.         *)
(***************************************************************************)
EXTENDS Integers, Sequences, FiniteSets, TLC

VARIABLES
    \* ---- classification specification (SpecClassify)
    row,              \* the row handed to classify_use
    label,            \* what classify_use returned for it, or NoLabel
    \* ---- statistics specification (SpecStats)
    st_features,      \* the classified Feature set handed to the engine
    st_boundaries,    \* the SubBoundary set handed to the engine
    st_diffed,        \* the engine's exclusive geometry per use type (diffed_areas)
    st_result,        \* the engine's table, or NoResult
    \* ---- the pipeline (Spec): the input, the processor, the file system
    gdf,              \* the rows of the input file's multipolygons layer
    sub_admin_level,  \* ProcessorOSM.sub_admin_level, or unset
    disk,             \* the files: path -> content (META.json, the cached
                      \* datasets, the statistics table)
    \* ---- the running process: main's position and locals, the GeoStat object
    pc,               \* "idle" (no process), or the step of main that is next
    run,              \* main's locals (city_name, no_cache, cached_state,
                      \* state_index) and what the run has done so far
    cache_meta,       \* GeoStat.cache_meta.cities
    self_name,        \* GeoStat.name
    city_m,           \* GeoStat.city_m
    boundaries_within,\* GeoStat.boundaries_within
    all_mp_within,    \* GeoStat.all_mp_within
    \* ---- history
    runs,             \* the number of runs started
    scratch_out,      \* per city: the table of an uninterrupted run from scratch
    resumed_out       \* per city: the table of a run resumed after an
                      \* interruption that followed stage 2

cls_vars == <<row, label>>
stats_vars == <<st_features, st_boundaries, st_diffed, st_result>>
env_vars == <<gdf, sub_admin_level>>
proc_vars == <<pc, run, cache_meta, self_name, city_m, boundaries_within, all_mp_within>>
hist_vars == <<runs, scratch_out, resumed_out>>
pipe_vars == <<env_vars, disk, proc_vars, hist_vars>>

vars == <<cls_vars, stats_vars, pipe_vars>>

(***************************************************************************)
(* Text                                                                    *)
(***************************************************************************)
UpperChars == <<"A","B","C","D","E","F","G","H","I","J","K","L","M",
                "N","O","P","Q","R","S","T","U","V","W","X","Y","Z">>
LowerChars == <<"a","b","c","d","e","f","g","h","i","j","k","l","m",
                "n","o","p","q","r","s","t","u","v","w","x","y","z">>
WhiteChars == {" "}

\* str.lower() on one character
LowerChar(c) ==
    IF \E i \in 1..Len(UpperChars) : UpperChars[i] = c
    THEN LowerChars[CHOOSE i \in 1..Len(UpperChars) : UpperChars[i] = c]
    ELSE c

\* str.lower()
Lower(s) == [i \in 1..Len(s) |-> LowerChar(s[i])]

\* str.strip(): leading and trailing white space removed
Strip(s) ==
    LET keep == {i \in 1..Len(s) : s[i] \notin WhiteChars}
    IN IF keep = {} THEN <<>>
       ELSE LET lo == CHOOSE i \in keep : \A j \in keep : i <= j
                hi == CHOOSE i \in keep : \A j \in keep : j <= i
            IN SubSeq(s, lo, hi)

\* Python's  needle in haystack  on strings
Contains(haystack, needle) ==
    \E i \in 0..(Len(haystack) - Len(needle)) :
        SubSeq(haystack, i + 1, i + Len(needle)) = needle

\* the words the processor compares against
W_none == <<"n","o","n","e">>
W_null == <<"n","u","l","l">>
W_cemetery == <<"c","e","m","e","t","e","r","y">>
W_residential == <<"r","e","s","i","d","e","n","t","i","a","l">>
W_water == <<"w","a","t","e","r">>
W_industrial == <<"i","n","d","u","s","t","r","i","a","l">>
W_commercial == <<"c","o","m","m","e","r","c","i","a","l">>
W_retail == <<"r","e","t","a","i","l">>
W_construction == <<"c","o","n","s","t","r","u","c","t","i","o","n">>
W_farmyard == <<"f","a","r","m","y","a","r","d">>
W_forest == <<"f","o","r","e","s","t">>
W_grass == <<"g","r","a","s","s">>
W_meadow == <<"m","e","a","d","o","w">>
W_recreation_ground == <<"r","e","c","r","e","a","t","i","o","n","_","g","r","o","u","n","d">>
W_village_green == <<"v","i","l","l","a","g","e","_","g","r","e","e","n">>
W_allotments == <<"a","l","l","o","t","m","e","n","t","s">>
W_farmland == <<"f","a","r","m","l","a","n","d">>
W_wood == <<"w","o","o","d">>
W_grassland == <<"g","r","a","s","s","l","a","n","d">>
W_heath == <<"h","e","a","t","h">>
W_scrub == <<"s","c","r","u","b">>
W_wetland == <<"w","e","t","l","a","n","d">>
W_park == <<"p","a","r","k">>
W_garden == <<"g","a","r","d","e","n">>
W_nature_reserve == <<"n","a","t","u","r","e","_","r","e","s","e","r","v","e">>

(***************************************************************************)
(* Field values: Python None, a float NaN, or a string                     *)
(***************************************************************************)
PyNone == [k |-> "None"]
NaN == [k |-> "nan"]
Str(s) == [k |-> "str", s |-> s]
IsStr(v) == v.k = "str"

\* processors.py has_value
has_value(v) ==
    IF v = PyNone THEN FALSE
    ELSE IF v = NaN THEN FALSE
    ELSE IF IsStr(v) /\ Lower(Strip(v.s)) \in {W_none, W_null, <<>>} THEN FALSE
    ELSE TRUE

OSM_ECON_LANDUSE == {W_industrial, W_commercial, W_retail, W_construction, W_farmyard}
OSM_GREEN_LANDUSE == {W_forest, W_grass, W_meadow, W_recreation_ground,
                      W_village_green, W_allotments, W_farmland}
OSM_GREEN_NATURAL == {W_wood, W_grassland, W_heath, W_scrub, W_wetland}
OSM_GREEN_LEISURE == {W_park, W_garden, W_nature_reserve}

\* ProcessorOSM.get_use_priority with water below green
get_use_priority_green_over_water ==
    <<"special_use", "economic", "green", "water", "residential",
      "building_only", "null">>

\* ProcessorOSM.get_use_priority
get_use_priority ==
    <<"special_use", "economic", "water", "green", "residential",
      "building_only", "null">>

\* str(v) in S, for a value that has_value accepted
StrIn(v, S) == IsStr(v) /\ v.s \in S

\* ProcessorOSM.classify_use with the green-landuse test moved to the front
\* of the chain
classify_use_green_first(r) ==
    IF has_value(r.landuse) /\ StrIn(r.landuse, OSM_GREEN_LANDUSE) THEN "green"
    ELSE IF has_value(r.amenity) \/ has_value(r.public_transport)
            \/ has_value(r.tourism) THEN "special_use"
    ELSE IF has_value(r.landuse) /\ r.landuse = Str(W_cemetery) THEN "special_use"
    ELSE IF has_value(r.leisure)
         THEN IF StrIn(r.leisure, OSM_GREEN_LEISURE) THEN "green" ELSE "special_use"
    ELSE IF has_value(r.landuse) /\ StrIn(r.landuse, OSM_ECON_LANDUSE) THEN "economic"
    ELSE IF has_value(r.landuse) /\ r.landuse = Str(W_residential) THEN "residential"
    ELSE IF has_value(r.natural) /\ StrIn(r.natural, OSM_GREEN_NATURAL) THEN "green"
    ELSE IF has_value(r.building) THEN "building_only"
    ELSE IF (has_value(r.other_tags) /\ Contains(r.other_tags.s, W_water))
            \/ (has_value(r.natural) /\ r.natural = Str(W_water)) THEN "water"
    ELSE "null"

\* ProcessorOSM.classify_use
classify_use(r) ==
    IF has_value(r.amenity) \/ has_value(r.public_transport)
       \/ has_value(r.tourism) THEN "special_use"
    ELSE IF has_value(r.landuse) /\ r.landuse = Str(W_cemetery) THEN "special_use"
    ELSE IF has_value(r.leisure)
         THEN IF StrIn(r.leisure, OSM_GREEN_LEISURE) THEN "green" ELSE "special_use"
    ELSE IF has_value(r.landuse) /\ StrIn(r.landuse, OSM_ECON_LANDUSE) THEN "economic"
    ELSE IF has_value(r.landuse) /\ r.landuse = Str(W_residential) THEN "residential"
    ELSE IF has_value(r.natural) /\ StrIn(r.natural, OSM_GREEN_NATURAL) THEN "green"
    ELSE IF has_value(r.landuse) /\ StrIn(r.landuse, OSM_GREEN_LANDUSE) THEN "green"
    ELSE IF has_value(r.building) THEN "building_only"
    ELSE IF (has_value(r.other_tags) /\ Contains(r.other_tags.s, W_water))
            \/ (has_value(r.natural) /\ r.natural = Str(W_water)) THEN "water"
    ELSE "null"

(***************************************************************************)
(* Classification of one row: processors.py classify_use applied to a row  *)
(* whose tag fields are drawn from TagRows.                                *)
(***************************************************************************)
W_place_of_worship == <<"p","l","a","c","e","_","o","f","_","w","o","r","s","h","i","p">>
W_station == <<"s","t","a","t","i","o","n">>
W_hotel == <<"h","o","t","e","l">>
W_pitch == <<"p","i","t","c","h">>
W_military == <<"m","i","l","i","t","a","r","y">>
W_yes == <<"y","e","s">>
W_NULL_padded == <<" ","N","U","L","L"," ">>
W_None == <<"N","o","n","e">>
W_blank == <<" ">>
W_forest_padded == <<"f","o","r","e","s","t"," ">>
W_blob_water == <<"a","=",">","w","a","t","e","r","w","a","y">>
W_blob_dry == <<"a","=",">","w","a","l","l">>

NoLabel == "<none>"

AmenityValues == {PyNone, NaN, Str(W_NULL_padded), Str(W_place_of_worship)}
PublicTransportValues == {PyNone, Str(<<>>), Str(W_station)}
TourismValues == {PyNone, Str(W_None), Str(W_hotel)}
LeisureValues == {PyNone, NaN, Str(W_park), Str(W_pitch)}
LanduseValues == {PyNone, Str(W_blank), Str(W_cemetery), Str(W_industrial),
                  Str(W_residential), Str(W_forest), Str(W_forest_padded),
                  Str(W_military)}
NaturalValues == {PyNone, Str(W_wood), Str(W_water), Str(W_null)}
BuildingValues == {PyNone, Str(W_yes), Str(W_none)}
OtherTagsValues == {PyNone, Str(W_blob_water), Str(W_blob_dry)}

TagRows ==
    [amenity : AmenityValues, public_transport : PublicTransportValues,
     tourism : TourismValues, leisure : LeisureValues, landuse : LanduseValues,
     natural : NaturalValues, building : BuildingValues,
     other_tags : OtherTagsValues]

\* a row with every tag absent
EmptyTags ==
    [amenity |-> PyNone, public_transport |-> PyNone, tourism |-> PyNone,
     leisure |-> PyNone, landuse |-> PyNone, natural |-> PyNone,
     building |-> PyNone, other_tags |-> PyNone]

ClassifyIdle == row = EmptyTags /\ label = NoLabel

\* all_mp_within.apply(classify_use, axis=1), one row of it
Classify ==
    /\ label = NoLabel
    /\ label' = classify_use(row)
    /\ UNCHANGED <<row, stats_vars, pipe_vars>>

\* the variables of the other specifications, at rest
StatsIdle ==
    /\ st_features = <<>> /\ st_boundaries = <<>>
    /\ st_diffed = <<>> /\ st_result = <<>>

PipelineIdle ==
    /\ gdf = <<>> /\ sub_admin_level = [set |-> FALSE, v |-> 0]
    /\ disk = <<>>
    /\ pc = "idle" /\ run = <<>> /\ cache_meta = <<>> /\ self_name = ""
    /\ city_m = <<>> /\ boundaries_within = <<>> /\ all_mp_within = <<>>
    /\ runs = 0 /\ scratch_out = <<>> /\ resumed_out = <<>>

InitClassify ==
    /\ row \in TagRows
    /\ label = NoLabel
    /\ StatsIdle
    /\ PipelineIdle

SpecClassify == InitClassify /\ [][Classify]_vars

(***************************************************************************)
(* C10.  The rule chain of the specification, rules 1 to 10, stated        *)
(* independently of the code's order of tests: Rule(k, r) is rule k's      *)
(* predicate, RuleLabel(k, r) its label.                                   *)
(***************************************************************************)
Present(v) == IsStr(v) /\ Lower(Strip(v.s)) \notin {<<>>, W_none, W_null}

Rule(k, r) ==
    CASE k = 1 -> Present(r.amenity) \/ Present(r.public_transport) \/ Present(r.tourism)
      [] k = 2 -> r.landuse = Str(W_cemetery)
      [] k = 3 -> Present(r.leisure)
      [] k = 4 -> IsStr(r.landuse) /\ r.landuse.s \in
                    {W_industrial, W_commercial, W_retail, W_construction, W_farmyard}
      [] k = 5 -> r.landuse = Str(W_residential)
      [] k = 6 -> IsStr(r.natural) /\ r.natural.s \in
                    {W_wood, W_grassland, W_heath, W_scrub, W_wetland}
      [] k = 7 -> IsStr(r.landuse) /\ r.landuse.s \in
                    {W_forest, W_grass, W_meadow, W_recreation_ground,
                     W_village_green, W_allotments, W_farmland}
      [] k = 8 -> Present(r.building)
      [] k = 9 -> r.natural = Str(W_water)
                  \/ (IsStr(r.other_tags) /\ Contains(r.other_tags.s, W_water))
      [] OTHER -> TRUE

RuleLabel(k, r) ==
    CASE k \in {1, 2} -> "special_use"
      [] k = 3 -> IF r.leisure.s \in {W_park, W_garden, W_nature_reserve}
                  THEN "green" ELSE "special_use"
      [] k = 4 -> "economic"
      [] k = 5 -> "residential"
      [] k \in {6, 7} -> "green"
      [] k = 8 -> "building_only"
      [] k = 9 -> "water"
      [] OTHER -> "null"

FirstRule(r) == CHOOSE k \in 1..10 : Rule(k, r) /\ \A j \in 1..(k - 1) : ~Rule(j, r)

\* C10: classify_use returns, for every combination of tag values, exactly
\* one label; the label is a member of the priority list of
\* get_use_priority and is the label of the first rule of the chain 1..10
\* that matches the row.
C10_ClassifyFirstMatch ==
    label # NoLabel =>
        /\ \E i \in 1..Len(get_use_priority) : get_use_priority[i] = label
        /\ label = RuleLabel(FirstRule(row), row)

\* C10 witness: a place of worship on a forest parcel has been classified
\* special_use (rule 1 wins over rule 7).
C10_Witness ==
    /\ row.amenity = Str(W_place_of_worship)
    /\ row.landuse = Str(W_forest)
    /\ label = "special_use"

(***************************************************************************)
(* Geometry                                                                *)
(***************************************************************************)
NCells == 4
Cells == 1..NCells

Area(g) == Cardinality(g)
Min(S) == CHOOSE x \in S : \A y \in S : x <= y
Max(S) == CHOOSE x \in S : \A y \in S : y <= x

RECURSIVE SumOver(_, _)
SumOver(S, f) ==
    IF S = {} THEN 0
    ELSE LET x == CHOOSE y \in S : TRUE IN f[x] + SumOver(S \ {x}, f)

\* GeoSeries.union_all(): the union of the geometries of a sequence of rows
\* (the empty geometry for no rows)
union_all(rows) == UNION {rows[i].geom : i \in 1..Len(rows)}

\* total_bounds of a non-empty geometry: cell i covers [i-1, i]
Bounds(g) == [minx |-> Min(g) - 1, maxx |-> Max(g)]

\* .cx[minx:maxx]: the geometry meets the box
InBox(g, box) == g # {} /\ Min(g) - 1 <= box.maxx /\ Max(g) >= box.minx

\* shapely intersects: closed cells, so neighbouring cells meet in their
\* common edge
Intersects(g, h) == \E a \in g, b \in h : a - b \in {-1, 0, 1}

\* twice the sum of the cell centres of g; the centroid is at
\* CentreSum2(g) / (2 * Area(g))
CentreSum2(g) == SumOver(g, [i \in g |-> 2 * i - 1])

\* centroid.within(h): the centroid lies in the interior of h
CentroidWithin(g, h) ==
    /\ g # {}
    /\ LET n == Area(g)
           c2 == CentreSum2(g)
       IN \/ \E j \in h : 2 * n * (j - 1) < c2 /\ c2 < 2 * n * j
          \/ \E j \in h : c2 = 2 * n * j /\ (j + 1) \in h

\* Optional geometry: Python None or a geometry
NoneGeom == [some |-> FALSE, g |-> {}]
SomeGeom(g) == [some |-> TRUE, g |-> g]

(***************************************************************************)
(* Rows.  A row of a GeoDataFrame: idx its index label, name / boundary /  *)
(* admin_level its attribute columns (NoValue for a missing value), geom   *)
(* its geometry, osm_id its identifier column, tags the columns            *)
(* classify_use reads, use the column                                      *)
(* georef_use_type (NoUse while the frame has no such column).  The column *)
(* area_m2 is Area(geom) of the row it was computed for and is read by no  *)
(* later stage, so it is not stored.                                       *)
(***************************************************************************)
NoValue == "<NA>"
NoUse == "<no column>"

Feature(i, g, t) ==
    [idx |-> i, osm_id |-> ToString(i), name |-> NoValue, boundary |-> NoValue,
     admin_level |-> NoValue, geom |-> g, tags |-> t, use |-> NoUse]

AdminRow(i, n, lvl, g) ==
    [idx |-> i, osm_id |-> ToString(i), name |-> n, boundary |-> "administrative",
     admin_level |-> lvl, geom |-> g, tags |-> EmptyTags, use |-> NoUse]

(***************************************************************************)
(* Statistics Engine: GeoStat.compute_statistics                           *)
(***************************************************************************)
PrioIndex == 1..Len(get_use_priority)

\* lines 270-275: the union of the Features carrying one use type, None
\* when there is none
UseTypeUnion(rows, prio) ==
    LET part == {i \in 1..Len(rows) : rows[i].use = prio}
    IN IF part = {} THEN NoneGeom
       ELSE SomeGeom(UNION {rows[i].geom : i \in part})

\* lines 277-289 with the running union replaced by the current geometry
\* instead of being extended by it
RECURSIVE WalkLosingUnion(_, _, _, _)
WalkLosingUnion(rows, i, higher_prio_union, diffed_areas) ==
    IF i > Len(get_use_priority) THEN diffed_areas
    ELSE LET prio == get_use_priority[i]
             geom == UseTypeUnion(rows, prio)
         IN IF ~geom.some
            THEN WalkLosingUnion(rows, i + 1, higher_prio_union,
                      [diffed_areas EXCEPT ![prio] = NoneGeom])
            ELSE IF ~higher_prio_union.some
            THEN WalkLosingUnion(rows, i + 1, geom, [diffed_areas EXCEPT ![prio] = geom])
            ELSE WalkLosingUnion(rows, i + 1, geom,
                      [diffed_areas EXCEPT
                          ![prio] = SomeGeom(geom.g \ higher_prio_union.g)])

\* lines 277-289: the walk over the priority list from index i on, with the
\* running union of the higher-priority geometry seen so far
RECURSIVE Walk(_, _, _, _)
Walk(rows, i, higher_prio_union, diffed_areas) ==
    IF i > Len(get_use_priority) THEN diffed_areas
    ELSE LET prio == get_use_priority[i]
             geom == UseTypeUnion(rows, prio)
         IN IF ~geom.some
            THEN Walk(rows, i + 1, higher_prio_union,
                      [diffed_areas EXCEPT ![prio] = NoneGeom])
            ELSE IF ~higher_prio_union.some
            THEN Walk(rows, i + 1, geom, [diffed_areas EXCEPT ![prio] = geom])
            ELSE Walk(rows, i + 1, SomeGeom(higher_prio_union.g \cup geom.g),
                      [diffed_areas EXCEPT
                          ![prio] = SomeGeom(geom.g \ higher_prio_union.g)])

UseTypes == {get_use_priority[i] : i \in PrioIndex}

\* the exclusive geometry of every use type (None for a type without Features)
DiffedAreas(rows) == Walk(rows, 1, NoneGeom, [p \in UseTypes |-> NoneGeom])

\* lines 292-313 without the remainder being added to the null bucket
area_dict_no_remainder(geom, diffed_areas) ==
    [area |-> [p \in UseTypes |->
                 IF diffed_areas[p].some THEN Area(geom \cap diffed_areas[p].g) ELSE 0],
     total_area |-> Area(geom)]

\* lines 292-313: _get_area_dict
get_area_dict(geom, diffed_areas) ==
    LET ret == [p \in UseTypes |->
                  IF diffed_areas[p].some THEN Area(geom \cap diffed_areas[p].g) ELSE 0]
        remaining == Area(geom) - SumOver(UseTypes, ret)
        null_area == IF remaining > 0 THEN remaining ELSE 0
    IN [area |-> [ret EXCEPT !["null"] = @ + null_area],
        total_area |-> Area(geom)]

\* lines 264-328: the rows of the statistics table (the percentage columns,
\* 100 * area / total_area rounded, are functions of these and not kept)
compute_statistics(name, all_mp_rows, boundary_rows) ==
    LET diffed_areas == DiffedAreas(all_mp_rows)
        full_union == union_all(all_mp_rows)
        main == get_area_dict(full_union, diffed_areas)
    IN <<[name |-> "all (" \o name \o ")", area |-> main.area,
          total_area |-> main.total_area]>>
       \o [i \in 1..Len(boundary_rows) |->
             LET rec == get_area_dict(boundary_rows[i].geom, diffed_areas)
             IN [name |-> boundary_rows[i].name, area |-> rec.area,
                 total_area |-> rec.total_area]]

(***************************************************************************)
(* The Statistics Engine on its own: any set of at most MaxStatFeatures    *)
(* classified Features (interval geometries, any use type, overlapping or  *)
(* not) against one SubBoundary per interval of the strip.                 *)
(***************************************************************************)
MaxStatFeatures == 3

Intervals == {lo..hi : lo \in Cells, hi \in Cells} \ {{}}

\* the classified Features the engine is tried on, numbered
StatCodes == 0..(NCells * NCells * Len(get_use_priority) - 1)
CodeGeom(c) ==
    LET q == c \div Len(get_use_priority)
    IN ((q \div NCells) + 1)..((q % NCells) + 1)
CodeUse(c) == get_use_priority[(c % Len(get_use_priority)) + 1]
ValidCodes == {c \in StatCodes : CodeGeom(c) # {}}
StatFeature(c) == [Feature(c, CodeGeom(c), EmptyTags) EXCEPT !.use = CodeUse(c)]

\* the strictly increasing sequences of at most k numbers of S
RECURSIVE IncSeqs(_, _)
IncSeqs(S, k) ==
    IF k = 0 THEN {<<>>}
    ELSE LET shorter == IncSeqs(S, k - 1)
             ext == {p \in shorter \X S :
                       /\ Len(p[1]) = k - 1
                       /\ (k = 1 \/ p[1][k - 1] < p[2])}
         IN shorter \cup {Append(p[1], p[2]) : p \in ext}

StatFeatureSeqs ==
    {[i \in 1..Len(cs) |-> StatFeature(cs[i])] : cs \in IncSeqs(ValidCodes, MaxStatFeatures)}

RECURSIVE SetToSeq(_)
SetToSeq(S) ==
    IF S = {} THEN <<>>
    ELSE LET x == CHOOSE y \in S : \A z \in S : Min(y) < Min(z)
                     \/ (Min(y) = Min(z) /\ Max(y) <= Max(z))
         IN <<x>> \o SetToSeq(S \ {x})

StatBoundaries ==
    LET gs == SetToSeq(Intervals)
    IN [i \in 1..Len(gs) |-> AdminRow(i, "d", "9", gs[i])]

NoResult == <<>>

ComputeStats ==
    /\ st_result = NoResult
    /\ st_diffed' = DiffedAreas(st_features)
    /\ st_result' = compute_statistics("A", st_features, st_boundaries)
    /\ UNCHANGED <<st_features, st_boundaries, cls_vars, pipe_vars>>

InitStats ==
    /\ st_features \in StatFeatureSeqs
    /\ st_boundaries = StatBoundaries
    /\ st_diffed = <<>>
    /\ st_result = NoResult
    /\ ClassifyIdle
    /\ PipelineIdle

SpecStats == InitStats /\ [][ComputeStats]_vars

(***************************************************************************)
(* Claims about the Statistics Engine                                      *)
(***************************************************************************)
FeaturesOverlap ==
    \E i, j \in 1..Len(st_features) :
        /\ st_features[i].use # st_features[j].use
        /\ st_features[i].geom \cap st_features[j].geom # {}

\* C5: area conservation.  In every row of the table (the row of the whole
\* union and every SubBoundary row), the areas of the use types, the null
\* bucket included, add up to the row's total_area.
C5_AreaConservation ==
    st_result # NoResult =>
        \A i \in 1..Len(st_result) :
            SumOver(UseTypes, st_result[i].area) = st_result[i].total_area

\* C5 witness: a table computed from overlapping Features of different use
\* types with a SubBoundary row that has area in a use type and an
\* unassigned remainder in the null bucket.
C5_Witness ==
    /\ st_result # NoResult
    /\ FeaturesOverlap
    /\ \A i \in 1..Len(st_features) : st_features[i].use # "null"
    /\ \E i \in 2..Len(st_result) :
          /\ st_result[i].area["null"] > 0
          /\ st_result[i].area["null"] < st_result[i].total_area

\* C6: priority monotonicity.  After the walk, the exclusive geometry of a
\* use type shares no area with the exclusive geometry of any use type of
\* higher priority (a use type without Features has none).
C6_PriorityMonotonicity ==
    st_result # NoResult =>
        \A a, b \in PrioIndex :
            LET A == st_diffed[get_use_priority[a]]
                B == st_diffed[get_use_priority[b]]
            IN (a < b /\ A.some /\ B.some) => Area(A.g \cap B.g) = 0

\* C6 witness: three Features of three different use types cover a common
\* cell, a fourth use type has no Feature, and the walk has run.
C6_Witness ==
    /\ st_result # NoResult
    /\ Len(st_features) = 3
    /\ Cardinality({st_features[i].use : i \in 1..3}) = 3
    /\ st_features[1].geom \cap st_features[2].geom \cap st_features[3].geom # {}
    /\ \E p \in UseTypes : ~st_diffed[p].some

\* the priority order as the claim states it
ClaimedOrder ==
    <<"special_use", "economic", "water", "green", "residential",
      "building_only", "null">>
ClaimedRank(u) == CHOOSE i \in 1..Len(ClaimedOrder) : ClaimedOrder[i] = u

\* C7: every cell covered by at least one Feature lies in the exclusive
\* geometry of exactly one use type: the covering Features' use type of
\* highest priority in the order special_use, economic, water, green,
\* residential, building_only, null.
C7_HighestPriorityOwns ==
    st_result # NoResult =>
        \A c \in union_all(st_features) :
            LET covering == {st_features[i].use :
                               i \in {j \in 1..Len(st_features) : c \in st_features[j].geom}}
                best == CHOOSE u \in covering :
                            \A v \in covering : ClaimedRank(u) <= ClaimedRank(v)
            IN \A p \in UseTypes :
                  (st_diffed[p].some /\ c \in st_diffed[p].g) <=> (p = best)

\* C7 witness: a cell claimed by a water Feature and a green Feature has
\* gone to water and not to green.
C7_Witness ==
    /\ st_result # NoResult
    /\ \E c \in Cells :
          /\ \E i \in 1..Len(st_features) :
                st_features[i].use = "water" /\ c \in st_features[i].geom
          /\ \E i \in 1..Len(st_features) :
                st_features[i].use = "green" /\ c \in st_features[i].geom
          /\ c \in st_diffed["water"].g
          /\ c \notin st_diffed["green"].g

(***************************************************************************)
(* The pipeline: src/georef.py, GeoStat and main                           *)
(***************************************************************************)
PATH_CACHE_DIR == "./georef_cache/"
PATH_CACHE_META == "./georef_cache/META.json"

\* STATE_MAPPING with use_type_added one too high
STATE_MAPPING_stats_cached ==
    [s \in {"city_extracted", "boundaries_fixed", "use_type_added"} |->
        CASE s = "city_extracted" -> 1
          [] s = "boundaries_fixed" -> 2
          [] s = "use_type_added" -> 4]

STATE_MAPPING ==
    [s \in {"city_extracted", "boundaries_fixed", "use_type_added"} |->
        CASE s = "city_extracted" -> 1
          [] s = "boundaries_fixed" -> 2
          [] s = "use_type_added" -> 3]

\* A frame (GeoDataFrame): its rows and whether it has the column
\* georef_use_type
Frame(rows, has_use) == [rows |-> rows, has_use |-> has_use]
NoFrame == Frame(<<>>, FALSE)

\* a dict or a directory with one entry set
Put(f, key, value) ==
    [k \in DOMAIN f \cup {key} |-> IF k = key THEN value ELSE f[k]]

\* to_file: the rows go to the file in their order, the index labels do
\* not; read_file numbers them 0, 1, ... again
Reindex(rows) == [i \in 1..Len(rows) |-> [rows[i] EXCEPT !.idx = i - 1]]
to_file(frame) == Frame(Reindex(frame.rows), frame.has_use)

\* GeoStat._get_cache_filepaths with file names that do not depend on the
\* city
get_cache_filepaths_shared(name) ==
    [city |-> PATH_CACHE_DIR \o "city.gpkg",
     boundaries_within |-> PATH_CACHE_DIR \o "boundaries_within.gpkg",
     all_mp_within |-> PATH_CACHE_DIR \o "all_mp_within.gpkg"]

\* GeoStat._get_cache_filepaths
get_cache_filepaths(name) ==
    [city |-> PATH_CACHE_DIR \o name \o "_city.gpkg",
     boundaries_within |-> PATH_CACHE_DIR \o name \o "_boundaries_within.gpkg",
     all_mp_within |-> PATH_CACHE_DIR \o name \o "_all_mp_within.gpkg"]

StatsPath(name) == name \o "_stats_output.csv"

\* MetaDictCity
MetaDictCity(name, cp, wp, ap, state) ==
    [name |-> name, state |-> state, filename_city |-> cp,
     filename_boundaries_within |-> wp, filename_all_mp_within |-> ap]

\* GeoStat.cache_get_state: the state recorded for a city, None if there is
\* no record
NoState == "<None>"
cache_get_state(cities, name) ==
    IF name \notin DOMAIN cities THEN NoState ELSE cities[name].state

\* STATE_MAPPING.get(cached_state, 0) with the stages numbered from 0
StateIndexOfFromZero(cached_state) ==
    IF cached_state \in DOMAIN STATE_MAPPING THEN STATE_MAPPING[cached_state] - 1 ELSE 0

\* STATE_MAPPING.get(cached_state, 0)
StateIndexOf(cached_state) ==
    IF cached_state \in DOMAIN STATE_MAPPING THEN STATE_MAPPING[cached_state] ELSE 0

\* one write of a handler: the file and what it holds afterwards
WriteOf(path, content) == [path |-> path, content |-> content]

RECURSIVE ApplyWrites(_, _)
ApplyWrites(d, ws) ==
    IF ws = <<>> THEN d
    ELSE ApplyWrites(Put(d, Head(ws).path, Head(ws).content), Tail(ws))

\* str() of a non-negative int
Digits == <<"0", "1", "2", "3", "4", "5", "6", "7", "8", "9">>
RECURSIVE StrOfNat(_)
StrOfNat(n) ==
    IF n < 10 THEN Digits[n + 1] ELSE StrOfNat(n \div 10) \o Digits[(n % 10) + 1]

\* ProcessorOSM.get_all_admin_boundaries
get_all_admin_boundaries(rows) ==
    SelectSeq(rows, LAMBDA r : r.boundary = "administrative" /\ r.name # NoValue)

\* ProcessorOSM.is_admin_level_subcity accepting every level
is_admin_level_any(r, lvl) == r.admin_level # NoValue

\* ProcessorOSM.is_admin_level_subcity on one row, with the attribute set
is_admin_level_subcity(r, lvl) == r.admin_level = StrOfNat(lvl.v)

\* ProcessorOSM.not_admin_boundary on one row
not_admin_boundary(r) == r.boundary # "administrative"

\* ProcessorOSM.fetch_boundaries_only: the keys of names_to_levels
fetch_boundaries_only(rows) ==
    {rows[i].name : i \in {j \in 1..Len(rows) : rows[j].boundary = "administrative"}}

\* sort_values("area_m2", ascending=True).iloc[[0]]: a candidate of the
\* smallest area
SmallestFirst(candidates) ==
    LET least == {i \in 1..Len(candidates) :
                    \A j \in 1..Len(candidates) :
                        Area(candidates[i].geom) <= Area(candidates[j].geom)}
    IN candidates[Min(least)]

\* sort_values("area_m2", ascending=False).iloc[[0]]: a candidate of the
\* largest area (of several, the first in the frame's order)
LargestFirst(candidates) ==
    LET best == {i \in 1..Len(candidates) :
                   \A j \in 1..Len(candidates) :
                       Area(candidates[j].geom) <= Area(candidates[i].geom)}
    IN candidates[Min(best)]

\* GeoStat.extract_city up to line 181: what it computes before it writes.
\* outcome "exit": no candidate (line 140); "AttributeError": the level
\* filter of line 161 reads ProcessorOSM.sub_admin_level while it is unset
\* (Series.map calls the lambda only when there is a row).
extract_city(name, rows, lvl) ==
    LET known_admin_boundaries == get_all_admin_boundaries(rows)
        candidates == SelectSeq(known_admin_boundaries, LAMBDA r : r.name = name)
    IN IF Len(candidates) = 0
       THEN [outcome |-> "exit", city_m |-> NoFrame,
             boundaries_within |-> NoFrame, all_mp_within |-> NoFrame]
       ELSE
       LET city == LargestFirst(candidates)
           city_area == Area(city.geom)
           bbox == Bounds(city.geom)
           others == SelectSeq(known_admin_boundaries, LAMBDA r : r.idx # city.idx)
           in_box == SelectSeq(others, LAMBDA r : InBox(r.geom, bbox))
           touching == SelectSeq(in_box, LAMBDA r : Intersects(r.geom, city.geom))
           subs == SelectSeq(touching, LAMBDA r :
                       /\ CentroidWithin(r.geom, city.geom)
                       /\ Area(r.geom) <= city_area
                       /\ is_admin_level_subcity(r, lvl))
           all_polygons == SelectSeq(rows, LAMBDA r : InBox(r.geom, bbox))
           meeting == SelectSeq(all_polygons, LAMBDA r : Intersects(r.geom, city.geom))
           mp == SelectSeq(meeting, LAMBDA r :
                       /\ CentroidWithin(r.geom, city.geom)
                       /\ Area(r.geom) <= city_area
                       /\ not_admin_boundary(r))
       IN IF Len(touching) > 0 /\ ~lvl.set
          THEN [outcome |-> "AttributeError", city_m |-> NoFrame,
                boundaries_within |-> NoFrame, all_mp_within |-> NoFrame]
          ELSE [outcome |-> "ok", city_m |-> Frame(<<city>>, FALSE),
                boundaries_within |-> Frame(subs, FALSE),
                all_mp_within |-> Frame(mp, FALSE)]

(***************************************************************************)
(* A handler's plan: whether it raises, the writes it makes in their       *)
(* order, and the GeoStat object's fields when it returns.  A handler that *)
(* raises does so before its first write.                                  *)
(***************************************************************************)
Obj(cm, n, c, b, a) ==
    [cache_meta |-> cm, self_name |-> n, city_m |-> c,
     boundaries_within |-> b, all_mp_within |-> a]

CurrentObj == Obj(cache_meta, self_name, city_m, boundaries_within, all_mp_within)

Raises(o) == [raises |-> TRUE, writes |-> <<>>, obj |-> o]
Returns(ws, o) == [raises |-> FALSE, writes |-> ws, obj |-> o]

\* GeoStat.extract_city recording the city before it looks for candidates
ExtractPlanRecordingAnyway(o, name, rows, lvl) ==
    LET x == extract_city(name, rows, lvl)
        fp == get_cache_filepaths(name)
        cities == Put(o.cache_meta, name,
                      MetaDictCity(name, fp.city, fp.boundaries_within,
                                   fp.all_mp_within, "city_extracted"))
    IN IF x.outcome # "ok"
       THEN [raises |-> TRUE, writes |-> <<WriteOf(PATH_CACHE_META, cities)>>,
             obj |-> [o EXCEPT !.self_name = name]]
       ELSE Returns(<<WriteOf(fp.city, to_file(x.city_m)),
                      WriteOf(fp.boundaries_within, to_file(x.boundaries_within)),
                      WriteOf(fp.all_mp_within, to_file(x.all_mp_within)),
                      WriteOf(PATH_CACHE_META, cities)>>,
                    Obj(cities, name, x.city_m, x.boundaries_within, x.all_mp_within))

\* GeoStat.extract_city, lines 123-201
ExtractPlan(o, name, rows, lvl) ==
    LET x == extract_city(name, rows, lvl)
        fp == get_cache_filepaths(name)
        cities == Put(o.cache_meta, name,
                      MetaDictCity(name, fp.city, fp.boundaries_within,
                                   fp.all_mp_within, "city_extracted"))
    IN IF x.outcome # "ok" THEN Raises([o EXCEPT !.self_name = name])
       ELSE Returns(<<WriteOf(fp.city, to_file(x.city_m)),
                      WriteOf(fp.boundaries_within, to_file(x.boundaries_within)),
                      WriteOf(fp.all_mp_within, to_file(x.all_mp_within)),
                      WriteOf(PATH_CACHE_META, cities)>>,
                    Obj(cities, name, x.city_m, x.boundaries_within, x.all_mp_within))

\* GeoStat.load_cached_mp taking a file that is not there for an empty set
LoadPlanSkippingMissing(o, name, d) ==
    IF name \notin DOMAIN o.cache_meta THEN Raises([o EXCEPT !.self_name = name])
    ELSE LET mdc == o.cache_meta[name]
             read(path) == IF path \in DOMAIN d THEN d[path] ELSE NoFrame
         IN Returns(<<>>,
                    Obj(o.cache_meta, name, read(mdc.filename_city),
                        read(mdc.filename_boundaries_within),
                        read(mdc.filename_all_mp_within)))

\* GeoStat.load_cached_mp, lines 203-216
LoadPlan(o, name, d) ==
    IF name \notin DOMAIN o.cache_meta THEN Raises([o EXCEPT !.self_name = name])
    ELSE LET mdc == o.cache_meta[name]
         IN IF \/ mdc.filename_city \notin DOMAIN d
               \/ mdc.filename_boundaries_within \notin DOMAIN d
               \/ mdc.filename_all_mp_within \notin DOMAIN d
               \/ Len(d[mdc.filename_city].rows) = 0
            THEN Raises([o EXCEPT !.self_name = name])
            ELSE Returns(<<>>,
                         Obj(o.cache_meta, name, d[mdc.filename_city],
                             d[mdc.filename_boundaries_within],
                             d[mdc.filename_all_mp_within]))

\* lines 225-229 with the union taken over the districts only, leaving out
\* a Restgebiet already in the set
RestGeomOfDistricts(city_frame, boundaries_frame) ==
    LET city_m_geom == city_frame.rows[1].geom
        districts == SelectSeq(boundaries_frame.rows, LAMBDA r : r.name # "Restgebiet")
        boundaries_union == union_all(districts) \cap city_m_geom
    IN city_m_geom \ boundaries_union

\* lines 225-229: the City area no SubBoundary covers
RestGeom(city_frame, boundaries_frame) ==
    LET city_m_geom == city_frame.rows[1].geom
        boundaries_union == union_all(boundaries_frame.rows) \cap city_m_geom
    IN city_m_geom \ boundaries_union

\* lines 235-245 without line 240: the appended row keeps the geometry of
\* the row it was copied from
WithRestgebietKeepingGeom(boundaries_frame, rest_geom) ==
    LET tmp == [boundaries_frame.rows[1] EXCEPT
                   !.name = "Restgebiet", !.osm_id = NoValue]
    IN Frame(Reindex(Append(boundaries_frame.rows, tmp)), boundaries_frame.has_use)

\* lines 235-245: the frame with the Restgebiet row appended; the row is a
\* copy of the first row with name, id columns and geometry replaced
WithRestgebiet(boundaries_frame, rest_geom) ==
    LET tmp == [boundaries_frame.rows[1] EXCEPT
                   !.name = "Restgebiet", !.osm_id = NoValue, !.geom = rest_geom]
    IN Frame(Reindex(Append(boundaries_frame.rows, tmp)), boundaries_frame.has_use)

\* GeoStat.fix_sub_boundaries without the write of the SubBoundary file
FixPlanNoFileWrite(o) ==
    IF o.self_name \notin DOMAIN o.cache_meta THEN Raises(o)
    ELSE LET mdc == o.cache_meta[o.self_name]
             rest_geom == RestGeom(o.city_m, o.boundaries_within)
             cities == Put(o.cache_meta, o.self_name,
                           [mdc EXCEPT !.state = "boundaries_fixed"])
         IN IF rest_geom = {} \/ Area(rest_geom) = 0
            THEN Returns(<<WriteOf(PATH_CACHE_META, cities)>>,
                         [o EXCEPT !.cache_meta = cities])
            ELSE IF Len(o.boundaries_within.rows) = 0
            THEN Raises(o)
            ELSE LET fixed == WithRestgebiet(o.boundaries_within, rest_geom)
                 IN Returns(<<WriteOf(PATH_CACHE_META, cities)>>,
                            [o EXCEPT !.cache_meta = cities,
                                      !.boundaries_within = fixed])

\* GeoStat.fix_sub_boundaries, lines 220-248.  iloc[[0]] of a frame without
\* rows raises IndexError (line 235).
FixPlan(o) ==
    IF o.self_name \notin DOMAIN o.cache_meta THEN Raises(o)
    ELSE LET mdc == o.cache_meta[o.self_name]
             rest_geom == RestGeom(o.city_m, o.boundaries_within)
             cities == Put(o.cache_meta, o.self_name,
                           [mdc EXCEPT !.state = "boundaries_fixed"])
         IN IF rest_geom = {} \/ Area(rest_geom) = 0
            THEN Returns(<<WriteOf(PATH_CACHE_META, cities)>>,
                         [o EXCEPT !.cache_meta = cities])
            ELSE IF Len(o.boundaries_within.rows) = 0
            THEN Raises(o)
            ELSE LET fixed == WithRestgebiet(o.boundaries_within, rest_geom)
                 IN Returns(<<WriteOf(mdc.filename_boundaries_within, to_file(fixed)),
                              WriteOf(PATH_CACHE_META, cities)>>,
                            [o EXCEPT !.cache_meta = cities,
                                      !.boundaries_within = fixed])

\* GeoStat.add_use_classification recording the state of stage 1
ClassifyPlanWrongState(o) ==
    IF o.self_name \notin DOMAIN o.cache_meta THEN Raises(o)
    ELSE LET mdc == o.cache_meta[o.self_name]
             rows == o.all_mp_within.rows
             classified ==
                 Frame([i \in 1..Len(rows) |->
                          [rows[i] EXCEPT !.use = classify_use(rows[i].tags)]], TRUE)
             cities == Put(o.cache_meta, o.self_name,
                           [mdc EXCEPT !.state = "city_extracted"])
         IN Returns(<<WriteOf(mdc.filename_all_mp_within, to_file(classified)),
                      WriteOf(PATH_CACHE_META, cities)>>,
                    [o EXCEPT !.cache_meta = cities, !.all_mp_within = classified])

\* GeoStat.add_use_classification, lines 250-262
ClassifyPlan(o) ==
    IF o.self_name \notin DOMAIN o.cache_meta THEN Raises(o)
    ELSE LET mdc == o.cache_meta[o.self_name]
             rows == o.all_mp_within.rows
             classified ==
                 Frame([i \in 1..Len(rows) |->
                          [rows[i] EXCEPT !.use = classify_use(rows[i].tags)]], TRUE)
             cities == Put(o.cache_meta, o.self_name,
                           [mdc EXCEPT !.state = "use_type_added"])
         IN Returns(<<WriteOf(mdc.filename_all_mp_within, to_file(classified)),
                      WriteOf(PATH_CACHE_META, cities)>>,
                    [o EXCEPT !.cache_meta = cities, !.all_mp_within = classified])

\* GeoStat.compute_statistics as a handler: without the column
\* georef_use_type line 271 raises KeyError
StatsPlan(o) ==
    IF ~o.all_mp_within.has_use THEN Raises(o)
    ELSE Returns(<<WriteOf(StatsPath(o.self_name),
                           compute_statistics(o.self_name, o.all_mp_within.rows,
                                              o.boundaries_within.rows))>>,
                 o)

(***************************************************************************)
(* The inputs the pipeline is run on.  The City A covers cells 1..3 of the *)
(* strip; cell 4 lies outside it.                                          *)
(***************************************************************************)
MaxRuns == 3
MaxSubs == 2
MaxFeats == 2

CityNames == {"A", "B"}

T_A == AdminRow(1, "A", "6", {1, 2, 3})
\* a neighbourhood of the same name, smaller and at a finer level
T_A2 == AdminRow(2, "A", "10", {1})
\* a neighbouring city
T_B == AdminRow(3, "B", "6", {4})

CityParts == {<<T_A>>, <<T_A2, T_A>>, <<T_A, T_B>>}

\* district candidates: inside A, covering it or not, reaching beyond it
\* with the centroid inside, with the centroid on A's border, larger than A
SubTemplates ==
    <<AdminRow(11, "d1", "9", {1, 2}),
      AdminRow(12, "d2", "9", {3}),
      AdminRow(13, "d3", "9", {2, 3, 4}),
      AdminRow(14, "d4", "9", {3, 4}),
      AdminRow(15, "d5", "9", {1, 2, 3, 4})>>

FeatTemplates ==
    <<Feature(21, {1, 2}, [EmptyTags EXCEPT !.landuse = Str(W_residential)]),
      Feature(22, {2, 3}, [EmptyTags EXCEPT !.natural = Str(W_water)]),
      Feature(23, {2, 3, 4}, [EmptyTags EXCEPT !.building = Str(W_yes),
                                               !.amenity = Str(W_NULL_padded)])>>

Pick(templates, is) == [i \in 1..Len(is) |-> templates[is[i]]]

SubChoices == IncSeqs(1..Len(SubTemplates), MaxSubs)
FeatChoices == IncSeqs(1..Len(FeatTemplates), MaxFeats)
\* one district that leaves a remainder; two overlapping Features
UsualSubs == <<1>>
UsualFeats == <<1, 2>>

\* every choice of districts, every choice of Features, every choice of
\* same-named and neighbouring boundaries, each with the rest as usual
InputShapes ==
    ({<<T_A>>} \X SubChoices \X {UsualFeats})
    \cup ({<<T_A>>} \X {UsualSubs} \X FeatChoices)
    \cup (CityParts \X {<<>>, UsualSubs} \X {UsualFeats})

\* get_gdf: the layer's rows, with the index 0, 1, ... read_file gives them
Inputs ==
    {Reindex(sh[1] \o Pick(SubTemplates, sh[2]) \o Pick(FeatTemplates, sh[3])) :
        sh \in InputShapes}

\* The processor's sub-district level.  ProcessorOSM() leaves the attribute
\* unset and main never calls set_subcity_admin_level; a processor on which
\* it was called holds an int.
Unset == [set |-> FALSE, v |-> 0]
SubLevel(n) == [set |-> TRUE, v |-> n]
SubLevelChoices == {Unset, SubLevel(9)}

NoRun ==
    [city_name |-> "", no_cache |-> FALSE, cached_state |-> NoState,
     state_index |-> 0, resumes_stage2 |-> FALSE, found_restgebiet |-> FALSE,
     executed |-> {}, outcome |-> "none", killed_at |-> ""]

Init ==
    /\ gdf \in Inputs
    /\ sub_admin_level \in SubLevelChoices
    /\ disk = <<>>
    /\ pc = "idle"
    /\ run = NoRun
    /\ cache_meta = <<>>
    /\ self_name = ""
    /\ city_m = NoFrame /\ boundaries_within = NoFrame /\ all_mp_within = NoFrame
    /\ runs = 0
    /\ scratch_out = [n \in CityNames |-> NoResult]
    /\ resumed_out = [n \in CityNames |-> NoResult]
    /\ ClassifyIdle
    /\ StatsIdle

\* the process is gone: the GeoStat object with it
ObjectGone ==
    /\ cache_meta' = <<>>
    /\ self_name' = ""
    /\ city_m' = NoFrame /\ boundaries_within' = NoFrame /\ all_mp_within' = NoFrame

ObjectIs(o) ==
    /\ cache_meta' = o.cache_meta
    /\ self_name' = o.self_name
    /\ city_m' = o.city_m
    /\ boundaries_within' = o.boundaries_within
    /\ all_mp_within' = o.all_mp_within

\* the last run, for this city, started from scratch and was interrupted
\* after its stage 2 and before its stage 3 had recorded anything
InterruptedAfterStage2(city) ==
    /\ run.city_name = city
    /\ run.state_index = 0
    /\ run.outcome = "killed"
    /\ run.killed_at = "step3"

\* the persisted SubBoundary set of the city holds a Restgebiet
PersistedRestgebiet(d, city) ==
    LET wp == get_cache_filepaths(city).boundaries_within
    IN /\ wp \in DOMAIN d
       /\ \E i \in 1..Len(d[wp].rows) : d[wp].rows[i].name = "Restgebiet"

\* main, lines 341-366: the GeoStat object is built (META.json read, or
\* created empty), the city name is asked for, and the starting stage index
\* is decided.  A name that is no administrative boundary's is replaced by
\* the best fuzzy match if the operator accepts it; otherwise main returns.
StartRun ==
    /\ pc = "idle"
    /\ runs < MaxRuns
    /\ \E req \in CityNames, nc \in BOOLEAN, answer \in CityNames \cup {"n"} :
         LET names_to_levels == fetch_boundaries_only(gdf)
             cities == IF PATH_CACHE_META \in DOMAIN disk
                       THEN disk[PATH_CACHE_META] ELSE <<>>
             city == IF req \in names_to_levels THEN req ELSE answer
             cached_state == cache_get_state(cities, city)
             state_index == IF nc THEN 0 ELSE StateIndexOf(cached_state)
         IN /\ req \in names_to_levels => answer = "n"
            /\ city \in names_to_levels \cup {"n"}
            /\ disk' = Put(disk, PATH_CACHE_META, cities)
            /\ IF city = "n"
               THEN /\ pc' = "idle"
                    /\ run' = [NoRun EXCEPT !.no_cache = nc, !.outcome = "declined"]
                    /\ ObjectGone
               ELSE /\ pc' = "step1"
                    /\ run' = [NoRun EXCEPT !.city_name = city, !.no_cache = nc,
                                            !.cached_state = cached_state,
                                            !.state_index = state_index,
                                            !.resumes_stage2 =
                                                InterruptedAfterStage2(city)
                                                /\ state_index = 2,
                                            !.found_restgebiet =
                                                PersistedRestgebiet(disk, city),
                                            !.outcome = "running"]
                    /\ cache_meta' = cities
                    /\ UNCHANGED <<self_name, city_m, boundaries_within, all_mp_within>>
    /\ runs' = runs + 1
    /\ UNCHANGED <<env_vars, scratch_out, resumed_out, cls_vars, stats_vars>>

\* a handler of main runs to its end: its writes reach the disk and main
\* moves on, or it raises and the process ends
Perform(plan, stage, next) ==
    /\ disk' = ApplyWrites(disk, plan.writes)
    /\ IF plan.raises
       THEN /\ pc' = "idle"
            /\ run' = [run EXCEPT !.executed = @ \cup {stage}, !.outcome = "failed"]
            /\ ObjectGone
       ELSE /\ pc' = next
            /\ run' = [run EXCEPT !.executed = @ \cup {stage},
                                  !.outcome = IF next = "idle" THEN "done" ELSE @]
            /\ IF next = "idle" THEN ObjectGone ELSE ObjectIs(plan.obj)
    /\ UNCHANGED <<env_vars, runs, cls_vars, stats_vars>>

\* main, lines 367-369
ExtractCity ==
    /\ pc = "step1"
    /\ run.state_index < 1
    /\ Perform(ExtractPlan(CurrentObj, run.city_name, gdf, sub_admin_level), 1, "step2")
    /\ UNCHANGED <<scratch_out, resumed_out>>

\* main, lines 370-371
LoadCachedMp ==
    /\ pc = "step1"
    /\ ~(run.state_index < 1)
    /\ Perform(LoadPlan(CurrentObj, run.city_name, disk), 0, "step2")
    /\ UNCHANGED <<scratch_out, resumed_out>>

\* main, lines 372-373
FixSubBoundaries ==
    /\ pc = "step2"
    /\ run.state_index < 2
    /\ Perform(FixPlan(CurrentObj), 2, "step3")
    /\ UNCHANGED <<scratch_out, resumed_out>>

\* main, lines 374-376
SkipStep2 ==
    /\ pc = "step2"
    /\ ~(run.state_index < 2)
    /\ pc' = "step3"
    /\ UNCHANGED <<env_vars, disk, run, cache_meta, self_name, city_m,
                   boundaries_within, all_mp_within, hist_vars, cls_vars, stats_vars>>

\* main, lines 377-378
AddUseClassification ==
    /\ pc = "step3"
    /\ run.state_index < 3
    /\ Perform(ClassifyPlan(CurrentObj), 3, "step4")
    /\ UNCHANGED <<scratch_out, resumed_out>>

\* main, lines 379-381
SkipStep3 ==
    /\ pc = "step3"
    /\ ~(run.state_index < 3)
    /\ pc' = "step4"
    /\ UNCHANGED <<env_vars, disk, run, cache_meta, self_name, city_m,
                   boundaries_within, all_mp_within, hist_vars, cls_vars, stats_vars>>

\* main, lines 382-383; afterwards main returns and the process ends
ComputeStatistics ==
    /\ pc = "step4"
    /\ run.state_index < 4
    /\ LET plan == StatsPlan(CurrentObj)
       IN /\ Perform(plan, 4, "idle")
          /\ scratch_out' =
                IF ~plan.raises /\ run.state_index = 0
                THEN [scratch_out EXCEPT ![run.city_name] = plan.writes[1].content]
                ELSE scratch_out
          /\ resumed_out' =
                IF ~plan.raises /\ run.resumes_stage2
                THEN [resumed_out EXCEPT ![run.city_name] = plan.writes[1].content]
                ELSE resumed_out

\* the handler main is about to call
NextPlan ==
    CASE pc = "step1" /\ run.state_index < 1 ->
            ExtractPlan(CurrentObj, run.city_name, gdf, sub_admin_level)
      [] pc = "step2" /\ run.state_index < 2 -> FixPlan(CurrentObj)
      [] pc = "step3" /\ run.state_index < 3 -> ClassifyPlan(CurrentObj)
      [] pc = "step4" /\ run.state_index < 4 -> StatsPlan(CurrentObj)
      [] OTHER -> Returns(<<>>, CurrentObj)

\* The process is interrupted (killed, power lost): before the next handler
\* writes anything, or between two of its writes.
Kill ==
    /\ pc # "idle"
    /\ \E k \in 0..Len(NextPlan.writes) :
          /\ k = 0 \/ k < Len(NextPlan.writes)
          /\ disk' = ApplyWrites(disk, SubSeq(NextPlan.writes, 1, k))
    /\ pc' = "idle"
    /\ run' = [run EXCEPT !.outcome = "killed", !.killed_at = pc]
    /\ ObjectGone
    /\ UNCHANGED <<env_vars, hist_vars, cls_vars, stats_vars>>

Next ==
    \/ StartRun
    \/ ExtractCity
    \/ LoadCachedMp
    \/ FixSubBoundaries
    \/ SkipStep2
    \/ AddUseClassification
    \/ SkipStep3
    \/ ComputeStatistics
    \/ Kill

Spec == Init /\ [][Next]_vars

(***************************************************************************)
(* Stage 1 handed any name.  main hands extract_city only names that       *)
(* fetch_boundaries_only found (lines 344-360); a caller that does not     *)
(* check the name reaches line 367 with any name.  The pipeline is started *)
(* at line 367 of a first run from scratch, for any city name, over a      *)
(* cache that is empty or holds the outcome of a completed stage 1 for a   *)
(* city; from there main goes on as in Spec.                               *)
(***************************************************************************)
\* GeoStat.__init__ on a fresh directory: META.json without records
FreshDisk == Put(<<>>, PATH_CACHE_META, <<>>)

\* the cache directories a run can find: fresh, or as a completed stage 1
\* for a city leaves it
PriorDisks(rows, lvl) ==
    {FreshDisk} \cup
    {ApplyWrites(FreshDisk,
                 ExtractPlan(Obj(<<>>, "", NoFrame, NoFrame, NoFrame), c, rows, lvl).writes) :
        c \in CityNames}

InitAnyName ==
    /\ gdf \in Inputs
    /\ sub_admin_level \in SubLevelChoices
    /\ disk \in PriorDisks(gdf, sub_admin_level)
    /\ pc = "step1"
    /\ \E n \in CityNames :
          run = [NoRun EXCEPT !.city_name = n, !.no_cache = TRUE,
                              !.cached_state = cache_get_state(disk[PATH_CACHE_META], n),
                              !.outcome = "running"]
    /\ cache_meta = disk[PATH_CACHE_META]
    /\ self_name = ""
    /\ city_m = NoFrame /\ boundaries_within = NoFrame /\ all_mp_within = NoFrame
    /\ runs = 1
    /\ scratch_out = [n \in CityNames |-> NoResult]
    /\ resumed_out = [n \in CityNames |-> NoResult]
    /\ ClassifyIdle
    /\ StatsIdle

SpecAnyName == InitAnyName /\ [][Next]_vars

(***************************************************************************)
(* The cache directory losing a file.  While no process runs, a dataset    *)
(* file named in a CacheMeta record is removed from the cache directory    *)
(* (by the operator, by a cleanup).  At most one file named in the records *)
(* is missing at a time.                                                   *)
(***************************************************************************)
Remove(d, path) == [k \in DOMAIN d \ {path} |-> d[k]]

\* the dataset files a record names
NamedFiles(mdc) ==
    {mdc.filename_city, mdc.filename_boundaries_within, mdc.filename_all_mp_within}

\* the records naming a file that is not there
Incomplete(d) ==
    {c \in DOMAIN d[PATH_CACHE_META] :
        ~(NamedFiles(d[PATH_CACHE_META][c]) \subseteq DOMAIN d)}

LoseFile ==
    /\ pc = "idle"
    /\ PATH_CACHE_META \in DOMAIN disk
    /\ Incomplete(disk) = {}
    /\ \E c \in DOMAIN disk[PATH_CACHE_META] :
          \E path \in NamedFiles(disk[PATH_CACHE_META][c]) :
              disk' = Remove(disk, path)
    /\ UNCHANGED <<env_vars, proc_vars, hist_vars, cls_vars, stats_vars>>

NextLostFile ==
    \/ Next
    \/ LoseFile

SpecLostFile == Init /\ [][NextLostFile]_vars

(***************************************************************************)
(* Claims about the pipeline                                               *)
(***************************************************************************)
\* CacheMeta as persisted: the records of META.json
PersistedMeta == IF PATH_CACHE_META \in DOMAIN disk THEN disk[PATH_CACHE_META] ELSE <<>>

\* the state recorded for a city, "unstarted" if it has no record
RecordedState(d, c) ==
    IF PATH_CACHE_META \in DOMAIN d /\ c \in DOMAIN d[PATH_CACHE_META]
    THEN d[PATH_CACHE_META][c].state
    ELSE "unstarted"

StateOrder == <<"unstarted", "city_extracted", "boundaries_fixed", "use_type_added">>
StateRank(st) == CHOOSE i \in 1..Len(StateOrder) : StateOrder[i] = st

\* the stage main decides on at each of its steps
StepStage(p) ==
    CASE p = "step1" -> 1 [] p = "step2" -> 2 [] p = "step3" -> 3
      [] p = "step4" -> 4 [] OTHER -> 0

\* the run has got past the decision on stage st
Decided(st) == (pc # "idle" /\ StepStage(pc) > st) \/ run.outcome = "done"

\* C1: the starting stage index is 0 if the city has no CacheMeta record or
\* the no-cache override is set, otherwise the index of the recorded state;
\* a stage 1..3 executes in the run if and only if the starting index is
\* below its number; with a starting index of at least 1 the three sets are
\* loaded from the cache and not extracted.
C1_ResumeRule ==
    /\ pc = "step1" =>
          run.state_index =
             IF run.no_cache \/ RecordedState(disk, run.city_name) = "unstarted"
             THEN 0
             ELSE StateRank(RecordedState(disk, run.city_name)) - 1
    /\ \A st \in 1..3 :
          /\ st \in run.executed => run.state_index < st
          /\ (Decided(st) /\ run.state_index < st) => st \in run.executed
    /\ (Decided(1) /\ run.state_index >= 1) =>
          /\ 0 \in run.executed /\ 1 \notin run.executed
          /\ pc = "step2" =>
                LET mdc == PersistedMeta[run.city_name]
                IN /\ city_m = disk[mdc.filename_city]
                   /\ boundaries_within = disk[mdc.filename_boundaries_within]
                   /\ all_mp_within = disk[mdc.filename_all_mp_within]

\* C1 witness: a run that found boundaries_fixed recorded has finished;
\* it loaded the cache, skipped stages 1 and 2 and ran stage 3.
C1_Witness ==
    /\ run.outcome = "done"
    /\ ~run.no_cache
    /\ run.cached_state = "boundaries_fixed"
    /\ run.state_index = 2
    /\ run.executed = {0, 3, 4}

\* C2 as claimed: over any sequence of runs, forced ones included, the state
\* recorded for a city never moves backwards.
C2_NeverBackwards ==
    [][\A c \in CityNames :
          StateRank(RecordedState(disk', c)) >= StateRank(RecordedState(disk, c))]_vars

\* C2 as amended: the state recorded for a city never moves backwards,
\* except that stage 1 of a run forced from scratch with the no-cache
\* override records city_extracted for its city whatever was recorded.
C2_BackwardsOnlyWhenForced ==
    [][\A c \in CityNames :
          \/ StateRank(RecordedState(disk', c)) >= StateRank(RecordedState(disk, c))
          \/ /\ run.no_cache
             /\ pc = "step1"
             /\ c = run.city_name
             /\ RecordedState(disk', c) = "city_extracted"]_vars

\* C2 witness: a forced run over a city recorded as use_type_added has
\* completed its stage 1 and the record says city_extracted.
C2_Witness ==
    /\ pc = "step2"
    /\ run.no_cache
    /\ run.cached_state = "use_type_added"
    /\ RecordedState(disk, run.city_name) = "city_extracted"

HasRestgebiet(table) == \E i \in 1..Len(table) : table[i].name = "Restgebiet"

\* C3: resume idempotence.  For the same input and city, the table of an
\* uninterrupted run from scratch and the table of a run that resumed from
\* the cache after a run from scratch was interrupted after stage 2 are the
\* same.
C3_ResumeIdempotence ==
    \A c \in CityNames :
        (scratch_out[c] # NoResult /\ resumed_out[c] # NoResult)
            => resumed_out[c] = scratch_out[c]

\* C3 witness: both runs have produced a table for A, with a Restgebiet row
\* and with area in more than one use type.
C3_Witness ==
    /\ scratch_out["A"] # NoResult
    /\ resumed_out["A"] # NoResult
    /\ HasRestgebiet(resumed_out["A"])
    /\ Cardinality({u \in UseTypes : resumed_out["A"][1].area[u] > 0}) > 1

\* C4: the statistics stage is never skipped.  A run that reaches step 4
\* finds the guard of compute_statistics true, a run that ends normally has
\* executed it, whatever state was recorded, and CacheMeta never holds a
\* state beyond use_type_added.
C4_StatisticsNeverSkipped ==
    /\ pc = "step4" => run.state_index < 4
    /\ run.outcome = "done" => 4 \in run.executed
    /\ \A c \in DOMAIN PersistedMeta :
          PersistedMeta[c].state \in {"city_extracted", "boundaries_fixed", "use_type_added"}

\* C4 witness: a run that found use_type_added recorded has finished and
\* has computed the statistics, and nothing else.
C4_Witness ==
    /\ run.outcome = "done"
    /\ run.cached_state = "use_type_added"
    /\ run.state_index = 3
    /\ run.executed = {0, 4}
    /\ StatsPath(run.city_name) \in DOMAIN disk

\* stage 2 of the current run has completed
Stage2Completed == pc = "step3" /\ 2 \in run.executed

\* C8 as claimed: after fix_sub_boundaries the union of the SubBoundary
\* geometries (Restgebiet included) equals the City geometry.
C8_PartitionEqualsCity ==
    Stage2Completed => union_all(boundaries_within.rows) = city_m.rows[1].geom

\* C8 as amended: after fix_sub_boundaries the SubBoundary geometries
\* (Restgebiet included) cover the City, in memory and as persisted: the
\* part of their union inside the City is the City; the union equals the
\* City when no SubBoundary reaches beyond it.
C8_PartitionCoversCity ==
    Stage2Completed =>
        LET city_geom == city_m.rows[1].geom
            persisted == disk[cache_meta[self_name].filename_boundaries_within]
        IN /\ union_all(boundaries_within.rows) \cap city_geom = city_geom
           /\ union_all(persisted.rows) \cap city_geom = city_geom
           /\ (\A i \in 1..Len(boundaries_within.rows) :
                  boundaries_within.rows[i].geom \subseteq city_geom)
              => union_all(boundaries_within.rows) = city_geom

\* C8 witness: stage 2 has completed with a SubBoundary that reaches beyond
\* the City and with a Restgebiet.
C8_Witness ==
    /\ Stage2Completed
    /\ \E i \in 1..Len(boundaries_within.rows) :
          ~(boundaries_within.rows[i].geom \subseteq city_m.rows[1].geom)
    /\ \E i \in 1..Len(boundaries_within.rows) :
          boundaries_within.rows[i].name = "Restgebiet"

\* what stage 1 finds for the run's city in the input
Stage1Result == extract_city(run.city_name, gdf, sub_admin_level)

\* C9: when stage 1 finds zero SubBoundaries the run does not fail: it
\* records city_extracted with an empty SubBoundary set, stage 2 makes of it
\* a set of exactly one Restgebiet covering the whole City, and the run goes
\* on through classification and statistics.
C9_ZeroSubBoundariesContinue ==
    (/\ 1 \in run.executed
     /\ Stage1Result.outcome = "ok"
     /\ Len(Stage1Result.boundaries_within.rows) = 0)
    => /\ run.outcome # "failed"
       /\ pc = "step2" =>
             /\ RecordedState(disk, run.city_name) = "city_extracted"
             /\ boundaries_within.rows = <<>>
       /\ pc = "step3" =>
             /\ Len(boundaries_within.rows) = 1
             /\ boundaries_within.rows[1].name = "Restgebiet"
             /\ boundaries_within.rows[1].geom = city_m.rows[1].geom

(***************************************************************************)
(* Claims about stage 1                                                    *)
(***************************************************************************)
\* the AdminBoundaries of the input: flagged administrative, with a name
AdminBoundaries ==
    {i \in 1..Len(gdf) : gdf[i].boundary = "administrative" /\ gdf[i].name # NoValue}

\* the AdminBoundaries whose name is exactly the run's city name
Candidates == {i \in AdminBoundaries : gdf[i].name = run.city_name}

\* stage 1 of the current run has completed
Stage1Completed == pc = "step2" /\ 1 \in run.executed

\* C11: tie-break.  Whenever stage 1 has selected a City among the
\* AdminBoundaries named exactly as requested, the City is one of them and
\* none of them has a strictly larger area; the persisted City is the same.
C11_TieBreakMaxArea ==
    Stage1Completed =>
        /\ Len(city_m.rows) = 1
        /\ \E i \in Candidates : gdf[i] = city_m.rows[1]
        /\ \A i \in Candidates : Area(gdf[i].geom) <= Area(city_m.rows[1].geom)
        /\ disk[get_cache_filepaths(run.city_name).city].rows[1].geom
              = city_m.rows[1].geom

\* C11 witness: stage 1 has selected a City among two candidates of the
\* requested name and of different areas, the smaller one first in the file.
C11_Witness ==
    /\ Stage1Completed
    /\ \E i, j \in Candidates :
          /\ i < j
          /\ Area(gdf[i].geom) < Area(gdf[j].geom)
          /\ city_m.rows[1] = gdf[j]

\* an administrative level as a number
LevelNumber(text) == CHOOSE n \in 0..99 : StrOfNat(n) = text

\* the City the tie-break selects for the run's city name
SelectedCity ==
    gdf[CHOOSE i \in Candidates :
            \A j \in Candidates :
                \/ Area(gdf[j].geom) < Area(gdf[i].geom)
                \/ (Area(gdf[j].geom) = Area(gdf[i].geom) /\ i <= j)]

\* the levels strictly greater (more local) than the City's level that some
\* AdminBoundary of the input has
FinerLevels ==
    {LevelNumber(gdf[i].admin_level) : i \in AdminBoundaries}
        \ (0..LevelNumber(SelectedCity.admin_level))

\* C12: sub-district level determination in stage 1.  If no AdminBoundary
\* has a level strictly greater than the City's, the run fails before any
\* state is recorded; otherwise the SubBoundary filter has a level to use
\* (the lowest such level, or the operator's choice).
C12_SubLevelDetermined ==
    (1 \in run.executed /\ Candidates # {}) =>
        IF FinerLevels = {}
        THEN /\ run.outcome = "failed"
             /\ RecordedState(disk, run.city_name) = "unstarted"
        ELSE sub_admin_level.set

\* C13: when the city name handed to stage 1 matches no AdminBoundary
\* exactly, stage 1 fails: the run ends there, no file of the cache
\* directory is written or changed (no City, SubBoundary or Feature dataset,
\* no CacheMeta record), and none of the stages 2 to 4 is executed.
C13_NoMatchNoEffect ==
    [][(pc = "step1" /\ run.state_index < 1 /\ Candidates = {}) =>
          /\ pc' = "idle"
          /\ run'.outcome \in {"failed", "killed"}
          /\ run'.executed \cap {2, 3, 4} = {}
          /\ disk' = disk]_vars

\* C13 witness: stage 1 was executed for a name no AdminBoundary has and the
\* run has failed, while the cache holds the record and datasets of
\* another city and nothing for the name.
C13_Witness ==
    /\ run.outcome = "failed"
    /\ run.executed = {1}
    /\ Candidates = {}
    /\ DOMAIN PersistedMeta # {}
    /\ run.city_name \notin DOMAIN PersistedMeta
    /\ get_cache_filepaths(run.city_name).city \notin DOMAIN disk

\* what the claim asks of a SubBoundary, of the AdminBoundary at place i of
\* the input, except for the level
GeometricallyWithin(i, city) ==
    /\ i \in AdminBoundaries
    /\ gdf[i].idx # city.idx
    /\ Intersects(gdf[i].geom, city.geom)
    /\ CentroidWithin(gdf[i].geom, city.geom)
    /\ Area(gdf[i].geom) <= Area(city.geom)

AtSubLevel(i) ==
    /\ sub_admin_level.set
    /\ LevelNumber(gdf[i].admin_level) = sub_admin_level.v

\* C16: the SubBoundaries stage 1 persists are exactly the AdminBoundaries
\* other than the selected City that intersect the City, have their
\* centroid inside it, have at most its area and are at the designated
\* sub-district level: each persisted row is one of these, unchanged, and
\* none of these is left out or persisted twice.
C16_SubBoundaryFilter ==
    Stage1Completed =>
        LET city == city_m.rows[1]
            persisted == disk[get_cache_filepaths(run.city_name).boundaries_within].rows
            qualifying == {i \in 1..Len(gdf) : GeometricallyWithin(i, city) /\ AtSubLevel(i)}
        IN /\ \A k \in 1..Len(persisted) :
                 \E i \in qualifying : [persisted[k] EXCEPT !.idx = gdf[i].idx] = gdf[i]
           /\ \A i \in qualifying :
                 \E k \in 1..Len(persisted) : persisted[k].osm_id = gdf[i].osm_id
           /\ Len(persisted) = Cardinality(qualifying)

\* C16 witness: stage 1 has persisted a SubBoundary and has left out an
\* AdminBoundary that meets the geometric conditions and is at another level.
C16_Witness ==
    /\ Stage1Completed
    /\ Len(disk[get_cache_filepaths(run.city_name).boundaries_within].rows) > 0
    /\ \E i \in 1..Len(gdf) :
          GeometricallyWithin(i, city_m.rows[1]) /\ ~AtSubLevel(i)

(***************************************************************************)
(* Claims about stage 2                                                    *)
(***************************************************************************)
\* what stage 2 is claimed to do to the cache directory d of city c,
\* giving e
Stage2Effect(c, d, e) ==
    LET fp == get_cache_filepaths(c)
        before == d[fp.boundaries_within].rows
        after == e[fp.boundaries_within].rows
        city_geom == d[fp.city].rows[1].geom
        residual == city_geom \ (union_all(before) \cap city_geom)
    IN /\ IF residual = {}
          THEN after = before
          ELSE /\ Len(after) = Len(before) + 1
               /\ SubSeq(after, 1, Len(before)) = before
               /\ after[Len(after)].name = "Restgebiet"
               /\ after[Len(after)].geom = residual
               /\ after[Len(after)].osm_id = NoValue
       /\ RecordedState(e, c) = "boundaries_fixed"
       /\ e[fp.city] = d[fp.city]
       /\ e[fp.all_mp_within] = d[fp.all_mp_within]

\* C17: stage 2, whenever main executes it and it is not interrupted,
\* leaves the persisted SubBoundary set unchanged if the residual is empty
\* and otherwise appends exactly one Restgebiet carrying the residual, with
\* undefined identifier, keeping the existing SubBoundaries; either way the
\* state recorded afterwards is boundaries_fixed and the City and Feature
\* sets are unchanged.
C17_Stage2Effect ==
    [][(pc = "step2" /\ run.state_index < 2 /\ run'.outcome # "killed") =>
          Stage2Effect(run.city_name, disk, disk')]_vars

\* the number of rows named Restgebiet
RestgebietCount(rows) ==
    Cardinality({i \in 1..Len(rows) : rows[i].name = "Restgebiet"})

\* C18: stage idempotence.  When main executes stage 2 on persisted data
\* that already holds its output (the SubBoundaries, a Restgebiet among
\* them or not, cover the City), the stage succeeds and the persisted
\* SubBoundary set is the same afterwards; when it executes stage 3 on a
\* persisted Feature set that already carries use types, the persisted
\* Feature set is the same afterwards; and no persisted SubBoundary set
\* ever holds more than one Restgebiet.
C18_StageIdempotence ==
    [][LET fp == get_cache_filepaths(run.city_name)
       IN /\ (/\ pc = "step2" /\ run.state_index < 2 /\ run'.outcome # "killed"
               /\ RestGeom(disk[fp.city], disk[fp.boundaries_within]) = {}) =>
                 /\ pc' = "step3"
                 /\ disk'[fp.boundaries_within] = disk[fp.boundaries_within]
          /\ (/\ pc = "step3" /\ run.state_index < 3 /\ run'.outcome # "killed"
               /\ disk[fp.all_mp_within].has_use) =>
                 /\ pc' = "step4"
                 /\ disk'[fp.all_mp_within] = disk[fp.all_mp_within]
          /\ \A c \in CityNames :
                get_cache_filepaths(c).boundaries_within \in DOMAIN disk' =>
                   RestgebietCount(disk'[get_cache_filepaths(c).boundaries_within].rows) <= 1
      ]_vars

\* C18 witness: a run has found city_extracted recorded and a Restgebiet
\* already persisted (its predecessor was interrupted between the dataset
\* write and the CacheMeta write of stage 2), has executed stage 2 again,
\* and the persisted set holds one Restgebiet.
C18_Witness ==
    /\ pc = "step3"
    /\ run.cached_state = "city_extracted"
    /\ run.found_restgebiet
    /\ run.executed = {0, 2}
    /\ RestgebietCount(disk[get_cache_filepaths(run.city_name).boundaries_within].rows) = 1

(***************************************************************************)
(* Claims about the cache                                                  *)
(***************************************************************************)
\* C14: when a city has a record (state city_extracted or later) and a
\* dataset file the record names is missing, a run for it without the
\* no-cache override fails: its starting index is not 0, it ends at the
\* load without executing any of the stages 1 to 4, and it leaves the
\* cache directory, the recorded state included, as it was.
C14_MissingFileFails ==
    [][(/\ pc = "step1"
        /\ ~run.no_cache
        /\ RecordedState(disk, run.city_name) # "unstarted"
        /\ run.city_name \in Incomplete(disk)) =>
          /\ run.state_index >= 1
          /\ pc' = "idle"
          /\ run'.outcome \in {"failed", "killed"}
          /\ run'.executed \cap {1, 2, 3, 4} = {}
          /\ disk' = disk]_vars

\* C14 witness: a run without the override for a city recorded as
\* boundaries_fixed, one of whose dataset files is missing, has failed at
\* the load.
C14_Witness ==
    /\ run.outcome = "failed"
    /\ run.executed = {0}
    /\ ~run.no_cache
    /\ RecordedState(disk, run.city_name) = "boundaries_fixed"
    /\ run.city_name \in Incomplete(disk)

\* C15: the row "all (<city>)" of a city's statistics table is computed over
\* the whole City: its total_area is the City's area, and the City area no
\* Feature covers is counted in its null bucket.
C15_AllRowOverCity ==
    \A c \in CityNames :
        (StatsPath(c) \in DOMAIN disk) =>
            LET fp == get_cache_filepaths(c)
                all_row == disk[StatsPath(c)][1]
                city_geom == disk[fp.city].rows[1].geom
                covered == union_all(disk[fp.all_mp_within].rows)
            IN /\ all_row.name = "all (" \o c \o ")"
               /\ all_row.total_area = Area(city_geom)
               /\ all_row.area["null"] >= Area(city_geom \ covered)

\* C19: cache consistency under interruption.  In every reachable state, a
\* city recorded at state s has persisted datasets holding the output of
\* every stage up to s: the three datasets exist; at boundaries_fixed or
\* later the persisted SubBoundaries cover the City; at use_type_added
\* every persisted Feature carries a use type.
C19_CacheConsistent ==
    \A c \in DOMAIN PersistedMeta :
        LET mdc == PersistedMeta[c]
            city_geom == disk[mdc.filename_city].rows[1].geom
            subs == disk[mdc.filename_boundaries_within].rows
            feats == disk[mdc.filename_all_mp_within]
        IN /\ NamedFiles(mdc) \subseteq DOMAIN disk
           /\ mdc.state \in {"boundaries_fixed", "use_type_added"} =>
                 union_all(subs) \cap city_geom = city_geom
           /\ mdc.state = "use_type_added" =>
                 /\ feats.has_use
                 /\ \A i \in 1..Len(feats.rows) : feats.rows[i].use \in UseTypes

\* the records of META.json in a cache directory
MetaOf(d) == IF PATH_CACHE_META \in DOMAIN d THEN d[PATH_CACHE_META] ELSE <<>>

\* the record of a city, if there is one
RecordOf(d, c) == {MetaOf(d)[k] : k \in DOMAIN MetaOf(d) \cap {c}}

\* the persisted datasets of a city: the files of its name and the files
\* its record names, with what they hold
DatasetsOf(d, c) ==
    LET fp == get_cache_filepaths(c)
        paths == {fp.city, fp.boundaries_within, fp.all_mp_within}
                    \cup UNION {NamedFiles(mdc) : mdc \in RecordOf(d, c)}
    IN [path \in paths \cap DOMAIN d |-> d[path]]

\* C20: CacheMeta records are per city and never deleted.  No step of any
\* run removes a city's record, and a step of a run for one city changes
\* neither the record (state and file names) nor the persisted datasets of
\* any other city.
C20_RecordsPerCity ==
    [][\A c \in CityNames :
          /\ c \in DOMAIN MetaOf(disk) => c \in DOMAIN MetaOf(disk')
          /\ (pc = "idle" \/ c # run.city_name) =>
                /\ RecordOf(disk', c) = RecordOf(disk, c)
                /\ DatasetsOf(disk', c) = DatasetsOf(disk, c)]_vars

\* C20 witness: a run for A has completed its stages 1 and 2 in a cache
\* directory that holds the record and the datasets of B, and both cities
\* have their record.
C20_Witness ==
    /\ pc = "step3"
    /\ run.city_name = "A"
    /\ {1, 2} \subseteq run.executed
    /\ RecordOf(disk, "B") # {}
    /\ RecordOf(disk, "A") # {}
    /\ DatasetsOf(disk, "B") # <<>>

====
